---- MODULE Spec2Model ----
(***************************************************************************)
(* Streaming identification and correlation engine:                        *)
(*   LIdentifyingAttack        (src/src/attacks/l_identifying.py)          *)
(*   RangeCombiningAttack      (src/src/attacks/range_combining.py)        *)
(*   CredentialConnectingAttack (src/src/attacks/credential_connecting.py) *)
(*   main, step 3              (src/experiments/run_experiments.py)        *)
(*                                                                         *)
(* Tokens (truncated digests, Python str) are modelled as the naturals     *)
(* 1..NumTokens; < on them stands for the string order sorted() uses.      *)
(* A Python dict is a function whose DOMAIN is the set of its keys.        *)
(***************************************************************************)
EXTENDS Integers, Sequences, FiniteSets, TLC

\* ---------------------------------------------------------------- bounds
NumTokens == 2
MaxL == 2
MaxThreshold == 2
MaxInterval == 3
MaxFed == 5
MaxLen == 3
MaxKeys == 2
MaxCount == 2
MaxLoads == 3
MaxLines == 2
MaxCandidates == 2
MaxOverlap == 3
MaxPrefix == 2
MaxStream == 8

Tokens == 1..NumTokens

VARIABLES
    tracker,        \* the LIdentifyingAttack object: its six fields
    prev_tracker,   \* the object as it was before the last call
    last_op,        \* "init", "process", "reset", or "type_error" for a
                    \* process call that raised TypeError
    fed,            \* every token processed since construction, in order
    since_reset,    \* the tokens processed since the last reset()
    was_reset,      \* TRUE once reset() has been called
    stream,         \* the token stream a scenario feeds (else empty)
    rc,             \* the RangeCombiningAttack object: its two lists
    rc_prev,        \* the object as it was before the last load
    last_load,      \* the last load call: arguments and outcome
    loaded_lengths, \* the query_length of every load call so far, in order
    loaded_tables,  \* the result_dict of every load call so far, in order
    repeated,       \* TRUE when the last load repeated the arguments of
                    \* the load before it
    connector,      \* the CredentialConnectingAttack object: its two lists
    identified_queries, \* the candidate signatures handed to run
    min_overlap,    \* the min_overlap handed to run
    connected_results,  \* the list run returned
    match_result_list,  \* run: what _find_best_matches returned
    matcher_pc,     \* "new", "loaded" (after pre_compute), "ran", or
                    \* "raised" when run ended with an exception
    leak_file,      \* the lines of the file at file_path, when pre_compute
                    \* is followed line by line (else empty)
    pre_args,       \* the arguments of that pre_compute call
    l_identifying_attack_list,  \* main: one tracker per window length
    cnt,            \* main: the lines of the query file read so far
    sequences_file, \* main: the signatures written out after the loop
    loaded_cnt,     \* the value of cnt at the last checkpoint (0: none)
    main_pc         \* "reading", "written", or "aborted" by an exception

tracker_vars ==
    <<tracker, prev_tracker, last_op, fed, since_reset, was_reset, stream>>
combiner_vars ==
    <<rc, rc_prev, last_load, loaded_lengths, loaded_tables, repeated>>
matcher_vars ==
    <<connector, identified_queries, min_overlap, connected_results,
      match_result_list, matcher_pc, leak_file, pre_args>>
main_vars ==
    <<l_identifying_attack_list, cnt, sequences_file, loaded_cnt, main_pc>>
vars == <<tracker_vars, combiner_vars, matcher_vars, main_vars>>

\* ------------------------------------------------------- LIdentifyingAttack
EmptyDict == <<>>

\* sorted(...) of a list of tokens, as a tuple
Sorted(s) == SortSeq(s, LAMBDA x, y: x < y)

\* the orders of n things: the permutations of 1..n
Orders(n) ==
    {f \in [1..n -> 1..n] : \A i, j \in 1..n : i # j => f[i] # f[j]}

\* if subseq in d: d[subseq] += 1 else: d[subseq] = 1
IncrementInsertOnly(d, k) ==
    IF k \in DOMAIN d THEN d ELSE d @@ (k :> 1)

Increment(d, k) ==
    IF k \in DOMAIN d THEN [d EXCEPT ![k] = @ + 1] ELSE d @@ (k :> 1)

\* __init__
NewTracker(length_l, threshold, interval) ==
    [query_dict |-> EmptyDict, current_window |-> <<>>, query_count |-> 0,
     l |-> length_l, prune_threshold |-> threshold, prune_interval |-> interval]

\* _prune: the dict comprehension keeps the entries with count >= threshold
PruneOffByOne(d, threshold) ==
    LET keep == {k \in DOMAIN d : d[k] >= threshold - 1}
    IN  [k \in keep |-> d[k]]

PruneStrict(d, threshold) ==
    LET keep == {k \in DOMAIN d : d[k] > threshold}
    IN  [k \in keep |-> d[k]]

Prune(d, threshold) ==
    LET keep == {k \in DOMAIN d : d[k] >= threshold}
    IN  [k \in keep |-> d[k]]

\* tuple(sorted(self._current_window[:self._l])): the FIRST l items of the
\* window, which holds l + 1 items once more than l tokens have arrived
WindowSignatureUnsorted(window, length_l) == SubSeq(window, 1, length_l)

WindowSignature(window, length_l) == Sorted(SubSeq(window, 1, length_l))

\* the condition of line 69 under which a signature is counted
CountsWindowStrict(window, length_l) == Len(window) > length_l

CountsWindow(window, length_l) == Len(window) >= length_l

\* lines 78-79: the oldest token is dropped once the window holds more than
\* l tokens
SlideFromLength(window, length_l) ==
    IF Len(window) >= length_l THEN Tail(window) ELSE window

Slide(window, length_l) ==
    IF Len(window) > length_l THEN Tail(window) ELSE window

\* process(query), for a str query.  Lines 75-76 add 0 to the count and are
\* no change of state.
Process(t, query) ==
    LET count   == t.query_count + 1
        window1 == Append(t.current_window, query)
        dict1   == IF CountsWindow(window1, t.l)
                   THEN Increment(t.query_dict, WindowSignature(window1, t.l))
                   ELSE t.query_dict
        window2 == Slide(window1, t.l)
        dict2   == IF count % t.prune_interval = 0
                   THEN Prune(dict1, t.prune_threshold)
                   ELSE dict1
    IN  [t EXCEPT !.query_count = count, !.current_window = window2,
                  !.query_dict = dict2]

\* Items handed to process that are no str (None, an int, bytes): the
\* model's 0, which is no token
NonStrItems == {0}

\* isinstance(query, str)
IsStr(item) == item \notin NonStrItems

\* process(item) for any item: lines 63-64 raise TypeError for an item that
\* is no str, before anything else is done
TryProcessCountsFirst(t, item) ==
    IF ~IsStr(item)
    THEN [tracker |-> [t EXCEPT !.query_count = @ + 1,
                                !.current_window = Append(@, item)],
          raised |-> TRUE]
    ELSE [tracker |-> Process(t, item), raised |-> FALSE]

TryProcess(t, item) ==
    IF ~IsStr(item)
    THEN [tracker |-> t, raised |-> TRUE]
    ELSE [tracker |-> Process(t, item), raised |-> FALSE]

\* get_result: a copy of the table
GetResult(t) == t.query_dict

\* The table of tracker t after the caller has changed the mapping that
\* get_result returned into changed: line 93 returns self._query_dict.copy(),
\* a dict of its own, so the table stays
TableAfterChangeShared(t, changed) == changed

TableAfterChange(t, changed) == t.query_dict

\* reset: clears the table and the counter; the window is left as it is
Reset(t) == [t EXCEPT !.query_dict = EmptyDict, !.query_count = 0]

\* Tracker other after the process call that took another tracker from
\* before to after: __init__ gives every object a dict and a list of its
\* own (lines 46-47), so the call leaves other as it is
OtherSharingTable(other, before, after) ==
    [other EXCEPT !.query_dict = after.query_dict]

OtherAfterProcess(other, before, after) == other

\* a new tracker fed a whole sequence of tokens
RECURSIVE FeedAll(_, _)
FeedAll(t, s) == IF s = <<>> THEN t ELSE FeedAll(Process(t, Head(s)), Tail(s))

\* ----------------------------------------------------- RangeCombiningAttack
\* __init__: two empty lists
NewCombiner == [combined_results |-> <<>>, lengths_processed |-> <<>>]

NoLoad == [table |-> EmptyDict, length |-> 0, raised |-> FALSE,
           left |-> EmptyDict]

\* subseq[i:i+l] of a tuple
Slice(subseq, i, l) == SubSeq(subseq, i + 1, i + l)

\* range(n)
Range0(n) == 0..(n - 1)

\* a dict after pop(k) for every k of keys
Without(d, keys) == [k \in DOMAIN d \ keys |-> d[k]]

\* lines 72-75, for a stored table of a shorter length l: every slice
\* subseq[i:i+l], i in range(query_length - l), of a key of result_dict is
\* popped from the stored table
RemoveFromShorterFirstHit(stored, result_dict, query_length, l) ==
    Without(stored,
        {Slice(subseq, i, l) : subseq \in DOMAIN result_dict,
                               i \in Range0(query_length - l)}
        \cap
        {k \in DOMAIN stored :
            \E subseq \in DOMAIN result_dict, i \in Range0(query_length - l) :
                /\ k = Slice(subseq, i, l)
                /\ \A j \in Range0(i) : Slice(subseq, j, l) \notin DOMAIN stored})

RemoveFromShorter(stored, result_dict, query_length, l) ==
    Without(stored,
        {Slice(subseq, i, l) : subseq \in DOMAIN result_dict,
                               i \in Range0(query_length - l)})

\* lines 77-80, for a stored table of a longer length l: every slice
\* subseq[i:i+query_length], i in range(l - query_length), of a stored key
\* is popped from result_dict
RemoveFromNewAllOffsets(result_dict, stored, query_length, l) ==
    Without(result_dict,
        {Slice(subseq, i, query_length) : subseq \in DOMAIN stored,
                                          i \in Range0(l - query_length + 1)})

RemoveFromNew(result_dict, stored, query_length, l) ==
    Without(result_dict,
        {Slice(subseq, i, query_length) : subseq \in DOMAIN stored,
                                          i \in Range0(l - query_length)})

\* lines 68-82: the scan of the stored lengths from position pos (counted
\* from 0) on; st holds the stored tables, result_dict and smaller_pos
RECURSIVE ScanFrom(_, _, _, _)
ScanFrom(st, lengths, query_length, pos) ==
    IF pos >= Len(lengths) THEN st
    ELSE LET l == lengths[pos + 1]
             next ==
                IF l < query_length
                THEN [st EXCEPT !.smaller_pos = pos,
                                !.results[pos + 1] =
                                    RemoveFromShorter(@, st.result_dict,
                                                      query_length, l)]
                ELSE IF l > query_length
                THEN [st EXCEPT !.result_dict =
                                    RemoveFromNew(@, st.results[pos + 1],
                                                  query_length, l)]
                ELSE [st EXCEPT !.smaller_pos = pos]
         IN  ScanFrom(next, lengths, query_length, pos + 1)

\* list[i] with Python's negative indices
PyIndex(list, i) == IF i < 0 THEN list[Len(list) + i + 1] ELSE list[i + 1]

\* list.insert(i, x), 0 <= i <= len(list)
InsertAtEnd(list, i, x) == Append(list, x)

InsertAtBefore(list, i, x) ==
    SubSeq(list, 1, i - 1) \o <<x>> \o SubSeq(list, i, Len(list))

InsertAt(list, i, x) ==
    SubSeq(list, 1, i) \o <<x>> \o SubSeq(list, i + 1, Len(list))

\* dict.update: the counts of e replace those of d; a key of d stays
UpdateReplacing(d, e) == e

UpdateSumming(d, e) ==
    [k \in DOMAIN d \cup DOMAIN e |->
        IF k \in DOMAIN e
        THEN (IF k \in DOMAIN d THEN d[k] + e[k] ELSE e[k])
        ELSE d[k]]

Update(d, e) ==
    [k \in DOMAIN d \cup DOMAIN e |-> IF k \in DOMAIN e THEN e[k] ELSE d[k]]

\* lines 89-90: the combiner when the call raises ValueError after the scan
\* st; nothing is stored, the lists are as the scan left them
RaisedCombinerStoring(c, st, query_length) ==
    [combined_results |-> Append(st.results, st.result_dict),
     lengths_processed |-> Append(c.lengths_processed, query_length)]

RaisedCombiner(c, st, query_length) ==
    [combined_results |-> st.results,
     lengths_processed |-> c.lengths_processed]

\* load_l_identifying_result(result_dict, query_length) on combiner c: the
\* combiner after the call, whether ValueError was raised, and result_dict
\* as the call leaves it.  result_dict is the caller's own dict (main passes
\* a copy, get_result()), no stored table.
Load(c, result_dict, query_length) ==
    IF c.combined_results = <<>>
    THEN [rc |-> [combined_results |-> <<result_dict>>,
                  lengths_processed |-> <<query_length>>],
          raised |-> FALSE, left |-> result_dict]
    ELSE LET st == ScanFrom([results |-> c.combined_results,
                             result_dict |-> result_dict,
                             smaller_pos |-> -1],
                            c.lengths_processed, query_length, 0)
             at == PyIndex(c.lengths_processed, st.smaller_pos)
         IN  IF at < query_length
             THEN [rc |-> [combined_results |->
                              InsertAt(st.results, st.smaller_pos + 1,
                                       st.result_dict),
                           lengths_processed |->
                              InsertAt(c.lengths_processed,
                                       st.smaller_pos + 1, query_length)],
                   raised |-> FALSE, left |-> st.result_dict]
             ELSE IF at = query_length
             THEN [rc |-> [combined_results |->
                              [st.results EXCEPT ![st.smaller_pos + 1] =
                                  Update(@, st.result_dict)],
                           lengths_processed |-> c.lengths_processed],
                   raised |-> FALSE, left |-> st.result_dict]
             ELSE [rc |-> RaisedCombiner(c, st, query_length),
                   raised |-> TRUE, left |-> st.result_dict]

\* the keys of a dict as a list (one fixed order stands for dict order)
RECURSIVE KeyList(_)
KeyList(keys) ==
    IF keys = {} THEN <<>>
    ELSE LET k == CHOOSE x \in keys : TRUE
         IN  <<k>> \o KeyList(keys \ {k})

\* RangeCombiningAttack.get_result: the keys of every stored table, in
\* storage order
RECURSIVE Flatten(_)
Flatten(tables) ==
    IF tables = <<>> THEN <<>>
    ELSE KeyList(DOMAIN Head(tables)) \o Flatten(Tail(tables))

CombinerGetResult(c) == Flatten(c.combined_results)

\* the signatures get_result returns, as a set
ResultSet(c) ==
    LET list == CombinerGetResult(c) IN {list[i] : i \in 1..Len(list)}

\* ----------------------------------------------- CredentialConnectingAttack
\* A credential is a pair <<username, password>> of naturals standing for
\* strings.  sha256(x).hexdigest()[:prefix_length] keeps prefix_length hex
\* digits of a digest: a function of x with 16^prefix_length values, under
\* which different plaintexts can collide.
HexDigits == 16

Digest(x, prefix_length) == x % (HexDigits ^ prefix_length)

\* the plaintext pre_compute keeps for credential c: the username, the
\* password, or the whole serialized credential (a code of the pair)
Plaintext(c, query_type) ==
    IF query_type = "user" THEN c[1]
    ELSE IF query_type = "pass" THEN c[2]
    ELSE c[1] * 100 + c[2]

\* lines with more than this many credentials are kept
MinGroupSize == 10

\* __init__
NewConnector == [credentials_data |-> <<>>, hash_credentials_data |-> <<>>]

\* no pre_compute call has been followed
NoArgs == [query_type |-> "", prefix_length |-> 0]

\* lines 61-78 for one line of the file, given as its credentials list
\* (line.split('\t')[:-1]: the fields that a tab ends)
PreComputeLineFromTen(c, credentials, query_type, prefix_length) ==
    IF Len(credentials) >= MinGroupSize
    THEN [credentials_data |->
              Append(c.credentials_data,
                     [i \in 1..Len(credentials) |->
                         Plaintext(credentials[i], query_type)]),
          hash_credentials_data |->
              Append(c.hash_credentials_data,
                     [i \in 1..Len(credentials) |->
                         Digest(Plaintext(credentials[i], query_type),
                                prefix_length)])]
    ELSE c

PreComputeLine(c, credentials, query_type, prefix_length) ==
    IF Len(credentials) > MinGroupSize
    THEN [credentials_data |->
              Append(c.credentials_data,
                     [i \in 1..Len(credentials) |->
                         Plaintext(credentials[i], query_type)]),
          hash_credentials_data |->
              Append(c.hash_credentials_data,
                     [i \in 1..Len(credentials) |->
                         Digest(Plaintext(credentials[i], query_type),
                                prefix_length)])]
    ELSE c

\* pre_compute over the lines of the file
RECURSIVE PreCompute(_, _, _, _)
PreCompute(c, file, query_type, prefix_length) ==
    IF file = <<>> THEN c
    ELSE PreCompute(PreComputeLine(c, Head(file), query_type, prefix_length),
                    Tail(file), query_type, prefix_length)

\* set(list)
Items(list) == {list[i] : i \in 1..Len(list)}

\* lines 118-121: the inverted index, token -> positions of the groups
\* that hold it
BuildIndex(B) ==
    [elem \in UNION {Items(B[i]) : i \in 1..Len(B)} |->
        {i \in 1..Len(B) : elem \in Items(B[i])}]

\* lines 125-128: the tally of every group that shares a token with a
TallyCounter(a, index) ==
    LET hits == Items(a) \cap DOMAIN index
    IN  [idx \in UNION {index[elem] : elem \in hits} |->
            Cardinality({elem \in hits : idx \in index[elem]})]

\* line 133: max(counter, key=...) returns a group of maximal tally; among
\* several it is the one met first in the iteration order of set(a) and of
\* the index sets, which the code does not fix: any of them
BestGroupsAny(counter) == DOMAIN counter

BestGroups(counter) ==
    {idx \in DOMAIN counter :
        \A other \in DOMAIN counter : counter[other] <= counter[idx]}

\* lines 136-140: the positions of group b whose token occurs in a, item by
\* item (items taken in ascending order, positions ascending per item)
PosListFirstOnly(a, b) ==
    SortSeq(SelectSeq([i \in 1..Len(b) |-> i],
                      LAMBDA i : /\ b[i] \in Items(a)
                                 /\ \A j \in 1..(i - 1) : b[j] # b[i]),
            LAMBDA i, j : b[i] < b[j])

PosList(a, b) ==
    SortSeq(SelectSeq([i \in 1..Len(b) |-> i], LAMBDA i : b[i] \in Items(a)),
            LAMBDA i, j : b[i] < b[j] \/ (b[i] = b[j] /\ i < j))

\* line 135: the test that accepts the best group
AcceptsStrict(tally, overlap) == tally > overlap

Accepts(tally, overlap) == tally >= overlap

\* lines 130-131: a candidate whose counter is empty is skipped
SkipsNever(counter) == FALSE

Skips(counter) == DOMAIN counter = {}

\* _find_best_matches(A, B, min_overlap) from candidate k on; best[k] is
\* the group max() returns for candidate k.  Each result keeps, beside
\* ([best_idx], [pos_list]), the position of its candidate in A and the
\* tally of the group (candidate, tally: not held by the code's results,
\* kept to state the claims).  max() of an empty
\* counter raises ValueError, which ends the call.
RECURSIVE FindFrom(_, _, _, _, _)
FindFrom(A, B, overlap, best, k) ==
    IF k > Len(A) THEN [results |-> <<>>, raised |-> FALSE]
    ELSE LET counter == TallyCounter(A[k], BuildIndex(B))
             rest == FindFrom(A, B, overlap, best, k + 1)
         IN  IF Skips(counter) THEN rest
             ELSE IF DOMAIN counter = {}
             THEN [results |-> <<>>, raised |-> TRUE]
             ELSE IF Accepts(counter[best[k]], overlap)
             THEN [results |->
                      <<[candidate |-> k, indices |-> <<best[k]>>,
                         details |-> <<PosList(A[k], B[best[k]])>>,
                         tally |-> counter[best[k]]]>>
                      \o rest.results,
                   raised |-> rest.raised]
             ELSE rest

FindBestMatches(A, B, overlap, best) == FindFrom(A, B, overlap, best, 1)

\* the choices max() can make for the candidates of A (0 where no group
\* shares a token)
BestChoices(A, B) ==
    {best \in [1..Len(A) -> 0..Len(B)] :
        \A k \in 1..Len(A) :
            LET counter == TallyCounter(A[k], BuildIndex(B))
            IN  IF DOMAIN counter = {} THEN best[k] = 0
                ELSE best[k] \in BestGroups(counter)}

\* the list with one occurrence of x removed
RECURSIVE RemoveOne(_, _)
RemoveOne(list, x) ==
    IF list = <<>> THEN <<>>
    ELSE IF Head(list) = x THEN Tail(list)
    ELSE <<Head(list)>> \o RemoveOne(Tail(list), x)

\* list((Counter(s) - Counter(t)).elements()): s without one occurrence
\* for every occurrence in t
RECURSIVE CounterMinus(_, _)
CounterMinus(list, t) ==
    IF list = <<>> THEN <<>>
    ELSE IF Head(list) \in Items(t)
    THEN CounterMinus(Tail(list), RemoveOne(t, Head(list)))
    ELSE <<Head(list)>> \o CounterMinus(Tail(list), t)

\* self._credentials_data[indices[pos]][d] for d in det
Pick(list, det) == [n \in 1..Len(det) |-> list[det[n]]]

\* line 110: the candidate whose tokens the unmatched list is taken from is
\* identified_queries[idpos], idpos being the position in match_result_list
UnmatchedSource(queries, idpos, result) == queries[idpos]

\* lines 107-108: the sorted matched list is in match_test already
SeenNever(key, match_test) == FALSE

Seen(key, match_test) == key \in match_test

\* lines 96-113 from result idpos on (positions counted from 1)
RECURSIVE ConnectFrom(_, _, _, _, _)
ConnectFrom(c, queries, results, idpos, match_test) ==
    IF idpos > Len(results) THEN <<>>
    ELSE LET result == results[idpos]
             group == result.indices[1]
             det == result.details[1]
             matches_list == Pick(c.credentials_data[group], det)
             matches_hash_list == Pick(c.hash_credentials_data[group], det)
             key == Sorted(matches_list)
         IN  IF Seen(key, match_test)
             THEN ConnectFrom(c, queries, results, idpos + 1, match_test)
             ELSE <<[matched |-> matches_list,
                     unmatched |->
                        CounterMinus(UnmatchedSource(queries, idpos, result),
                                     matches_hash_list),
                     other |-> CounterMinus(c.credentials_data[group],
                                            matches_list),
                     candidate |-> result.candidate,
                     group |-> group,
                     matched_hash |-> matches_hash_list]>>
                  \o ConnectFrom(c, queries, results, idpos + 1,
                                 match_test \cup {key})

\* run(identified_queries, min_overlap).  A record is [matches_list,
\* unmatches_list, other_candidate]; candidate, group and matched_hash are
\* kept beside it to state the claims.
Run(c, queries, overlap, best) ==
    LET found == FindBestMatches(queries, c.hash_credentials_data,
                                 overlap, best)
    IN  IF found.raised
        THEN [connected_results |-> <<>>, match_result_list |-> <<>>,
              raised |-> TRUE]
        ELSE [connected_results |->
                  ConnectFrom(c, queries, found.results, 1, {}),
              match_result_list |-> found.results,
              raised |-> FALSE]

\* ------------------------------------------------------------ main, step 3
\* The literals of main, scaled down so that a stream of a few tokens
\* passes them (the second stays a multiple of the first):
\* prune_interval=5000000 (line 47) and the checkpoint cnt % 20000000 == 0
\* (line 59)
MainPruneInterval == 2
CheckpointInterval == 4

\* lines 46-47: one tracker for every qlen in range(length_low, length_high)
NewAttackListDescending(length_low, length_high, min_threshold) ==
    [n \in 1..(length_high - length_low) |->
        NewTracker(length_high - n, min_threshold, MainPruneInterval)]

NewAttackList(length_low, length_high, min_threshold) ==
    [n \in 1..(length_high - length_low) |->
        NewTracker(length_low + n - 1, min_threshold, MainPruneInterval)]

\* lines 57-58: every tracker processes the line
ProcessAll(attacks, query) ==
    [n \in 1..Len(attacks) |-> Process(attacks[n], query)]

\* lines 61-62: the result of every tracker, from the n-th on, is loaded
\* into the combiner, which pops keys from the mapping it is handed; a
\* ValueError ends the run
RECURSIVE LoadAllFrom(_, _, _)
LoadAllFrom(c, attacks, n) ==
    IF n > Len(attacks) THEN [rc |-> c, raised |-> FALSE, attacks |-> attacks]
    ELSE LET r == Load(c, GetResult(attacks[n]), attacks[n].l)
             after == [attacks EXCEPT ![n].query_dict =
                                        TableAfterChange(attacks[n], r.left)]
         IN  IF r.raised
             THEN [rc |-> r.rc, raised |-> TRUE, attacks |-> after]
             ELSE LoadAllFrom(r.rc, after, n + 1)

\* line 59: the lines after which the trackers are loaded
AtCheckpoint(count) == count % CheckpointInterval = 0

\* main is not running
MainUnused ==
    /\ l_identifying_attack_list = <<>>
    /\ cnt = 0
    /\ sequences_file = <<>>
    /\ loaded_cnt = 0
    /\ main_pc = "reading"

\* no connector is in use
MatcherUnused ==
    /\ connector = NewConnector
    /\ identified_queries = <<>>
    /\ min_overlap = 0
    /\ connected_results = <<>>
    /\ match_result_list = <<>>
    /\ matcher_pc = "new"
    /\ leak_file = <<>>
    /\ pre_args = NoArgs

\* no combiner is in use
CombinerUnused ==
    /\ rc = NewCombiner
    /\ rc_prev = NewCombiner
    /\ last_load = NoLoad
    /\ loaded_lengths = <<>>
    /\ loaded_tables = <<>>
    /\ repeated = FALSE

\* no single tracker is in use
TrackerUnused ==
    /\ tracker = NewTracker(1, 1, 1)
    /\ prev_tracker = tracker
    /\ last_op = "init"
    /\ fed = <<>>
    /\ since_reset = <<>>
    /\ was_reset = FALSE
    /\ stream = <<>>

\* ------------------------------------------------------------ Tracker spec
TrackerInit ==
    /\ MainUnused
    /\ CombinerUnused
    /\ MatcherUnused
    /\ \E length_l \in 1..MaxL, threshold \in 1..MaxThreshold,
          interval \in 1..MaxInterval :
            tracker = NewTracker(length_l, threshold, interval)
    /\ prev_tracker = tracker
    /\ last_op = "init"
    /\ fed = <<>>
    /\ since_reset = <<>>
    /\ was_reset = FALSE
    /\ stream = <<>>

DoProcess ==
    /\ Len(fed) < MaxFed
    /\ \E query \in Tokens \cup NonStrItems :
        LET r == TryProcess(tracker, query)
        IN  /\ tracker' = r.tracker
            /\ fed' = IF r.raised THEN fed ELSE Append(fed, query)
            /\ since_reset' = IF r.raised THEN since_reset
                               ELSE Append(since_reset, query)
            /\ last_op' = IF r.raised THEN "type_error" ELSE "process"
    /\ prev_tracker' = tracker
    /\ UNCHANGED <<was_reset, stream, combiner_vars, matcher_vars, main_vars>>

DoReset ==
    /\ tracker' = Reset(tracker)
    /\ prev_tracker' = tracker
    /\ last_op' = "reset"
    /\ since_reset' = <<>>
    /\ was_reset' = TRUE
    /\ UNCHANGED <<fed, stream, combiner_vars, matcher_vars, main_vars>>

TrackerNext == DoProcess \/ DoReset

Spec == TrackerInit /\ [][TrackerNext]_vars

\* The L tokens that arrived last, the one just processed included
MostRecent(length_l) == SubSeq(fed, Len(fed) - length_l + 1, Len(fed))

\* C1: every process call after which at least L tokens have been processed
\* adds exactly 1 to the count of the signature of the L most recent tokens
\* (the token just passed in included) and changes no other count.  Stated
\* for the calls in which no pruning pass ran.
C1_CountsMostRecentWindow ==
    (/\ last_op = "process"
     /\ Len(fed) >= tracker.l
     /\ tracker.query_count % tracker.prune_interval # 0)
    => tracker.query_dict =
         Increment(prev_tracker.query_dict, Sorted(MostRecent(tracker.l)))

\* C7: after reset() the tracker's result is the one of a new tracker with
\* the same parameters fed the tokens processed since the reset.
C7_ResetLikeFresh ==
    was_reset =>
        GetResult(tracker) =
            GetResult(FeedAll(NewTracker(tracker.l, tracker.prune_threshold,
                                         tracker.prune_interval), since_reset))

\* C8: a process call that brings the counter to a multiple of
\* prune_interval leaves only entries with count >= prune_threshold; any
\* other process call removes no entry.
C8_PruneAtInterval ==
    last_op = "process" =>
        IF tracker.query_count % tracker.prune_interval = 0
        THEN \A k \in DOMAIN tracker.query_dict :
                tracker.query_dict[k] >= tracker.prune_threshold
        ELSE DOMAIN prev_tracker.query_dict \subseteq DOMAIN tracker.query_dict

\* a pruning call that removed an entry of the table
C8_Witness ==
    /\ last_op = "process"
    /\ tracker.query_count % tracker.prune_interval = 0
    /\ \E k \in DOMAIN prev_tracker.query_dict : k \notin DOMAIN tracker.query_dict

\* C16: a process call with an item that is no str raises TypeError and
\* leaves the table, the window and the counter as they were.
C16_TypeErrorKeepsState ==
    last_op = "type_error" =>
        /\ tracker.query_dict = prev_tracker.query_dict
        /\ tracker.current_window = prev_tracker.current_window
        /\ tracker.query_count = prev_tracker.query_count

\* a TypeError raised by a tracker that holds counted signatures
C16_Witness ==
    /\ last_op = "type_error"
    /\ tracker.query_dict # EmptyDict
    /\ tracker.current_window # <<>>
    /\ tracker.query_count > 0

\* the window the last process call took its signature from
CountedWindow ==
    SubSeq(Append(prev_tracker.current_window, fed[Len(fed)]), 1, tracker.l)

\* the last call was a process call that counted a signature and did not
\* prune
CountedUnpruned ==
    /\ last_op = "process"
    /\ Len(prev_tracker.current_window) + 1 >= tracker.l
    /\ tracker.query_count % tracker.prune_interval # 0

\* C17: every key of the table is a tuple of exactly L tokens in
\* non-decreasing order, repeated tokens included; and whatever the order of
\* the tokens in the window a call counts, the key it increments is the same.
C17_SortedTupleKeys ==
    /\ \A k \in DOMAIN tracker.query_dict :
        /\ Len(k) = tracker.l
        /\ \A i \in 1..Len(k) : k[i] \in Tokens
        /\ \A i, j \in 1..Len(k) : i < j => k[i] <= k[j]
    /\ CountedUnpruned =>
        \A f \in Orders(tracker.l) :
            tracker.query_dict =
                Increment(prev_tracker.query_dict,
                          WindowSignature([i \in 1..tracker.l |->
                                              CountedWindow[f[i]]],
                                          tracker.l))

\* a call counted a window whose tokens were not in sorted order, and the
\* table holds a key with a repeated token
C17_Witness ==
    /\ CountedUnpruned
    /\ tracker.l >= 2
    /\ CountedWindow # Sorted(CountedWindow)
    /\ \E k \in DOMAIN tracker.query_dict : k[1] = k[2]

\* the last call was a process call in which the pruning pass ran
PruningCall ==
    /\ last_op = "process"
    /\ tracker.query_count % tracker.prune_interval = 0

\* the tracker the last process call would have left without its pruning
\* pass: the same call on a tracker whose interval the counter does not reach
Unpruned ==
    Process([prev_tracker EXCEPT !.prune_interval =
                                    prev_tracker.query_count + 2],
            fed[Len(fed)])

\* C23: a pruning pass removes the entries with count < prune_threshold and
\* no other, keeps the counts of the rest, and leaves the window and the
\* counter as the call had set them; the window after the pass holds tokens
\* received before it.
C23_PruneFrame ==
    PruningCall =>
        /\ DOMAIN tracker.query_dict =
                {k \in DOMAIN Unpruned.query_dict :
                    ~(Unpruned.query_dict[k] < tracker.prune_threshold)}
        /\ \A k \in DOMAIN tracker.query_dict :
                tracker.query_dict[k] = Unpruned.query_dict[k]
        /\ tracker.current_window = Unpruned.current_window
        /\ tracker.query_count = Unpruned.query_count
        /\ tracker.current_window # <<>>
        /\ \A i \in 1..Len(tracker.current_window) :
                \E j \in 1..Len(fed) : fed[j] = tracker.current_window[i]

\* a pruning pass that removed an entry and kept another, in a tracker that
\* was never reset
C23_Witness ==
    /\ PruningCall
    /\ ~was_reset
    /\ tracker.query_dict # EmptyDict
    /\ DOMAIN tracker.query_dict # DOMAIN Unpruned.query_dict
    /\ Len(tracker.current_window) = tracker.l

\* the n tokens that arrived last, in arrival order
LastTokens(n) == SubSeq(fed, Len(fed) - n + 1, Len(fed))

\* C24: between calls the window holds the min(n, L) tokens that arrived
\* last, in arrival order, n being the number of tokens processed since
\* construction; it never holds more than L tokens.
C24_WindowHoldsLastTokens ==
    /\ Len(tracker.current_window) <= tracker.l
    /\ tracker.current_window =
            LastTokens(IF Len(fed) < tracker.l THEN Len(fed) ELSE tracker.l)

\* a process call on a tracker that has received more than L tokens and was
\* reset in between, with different tokens in the window
C24_Witness ==
    /\ last_op = "process"
    /\ Len(fed) > tracker.l + 1
    /\ was_reset
    /\ tracker.l >= 2
    /\ tracker.current_window[1] # tracker.current_window[2]

\* the sum of the counts of a table
RECURSIVE SumCounts(_)
SumCounts(d) ==
    IF DOMAIN d = {} THEN 0
    ELSE LET k == CHOOSE x \in DOMAIN d : TRUE
         IN  d[k] + SumCounts([x \in DOMAIN d \ {k} |-> d[x]])

\* the tracker as constructed, fed the first m tokens processed
Replayed(m) ==
    FeedAll(NewTracker(tracker.l, tracker.prune_threshold,
                       tracker.prune_interval), SubSeq(fed, 1, m))

\* no process call so far ran a pruning pass that removed an entry: every
\* call left the table that the same call leaves without the pass
NoEntryPruned ==
    \A m \in 1..Len(fed) :
        Replayed(m).query_dict =
            Process([Replayed(m - 1) EXCEPT !.prune_interval = m + 1],
                    fed[m]).query_dict

\* C30: while no pruning pass has removed an entry and reset has not been
\* called, the counts of the table add up to max(0, n - L + 1) after n
\* process calls.
C30_CountsAddUp ==
    (~was_reset /\ NoEntryPruned) =>
        /\ tracker.query_count = Len(fed)
        /\ SumCounts(tracker.query_dict) =
                IF Len(fed) - tracker.l + 1 > 0
                THEN Len(fed) - tracker.l + 1 ELSE 0

\* a tracker with threshold 2 that has passed a pruning pass which removed
\* nothing, was never reset, and holds two keys after more than L calls
C30_Witness ==
    /\ ~was_reset
    /\ NoEntryPruned
    /\ tracker.prune_threshold >= 2
    /\ tracker.query_count > tracker.prune_interval
    /\ Len(fed) > tracker.l
    /\ Cardinality(DOMAIN tracker.query_dict) >= 2

\* ----------------------------------------------------------- Scenario spec
\* A new tracker with L = 3, prune_threshold = 2, prune_interval = 100 is fed
\* a stream [a,b,c,a,b,c,a,b,c] for tokens a, b, c.
ScenarioTokens == 1..3

ScenarioInit ==
    /\ MainUnused
    /\ CombinerUnused
    /\ MatcherUnused
    /\ tracker = NewTracker(3, 2, 100)
    /\ prev_tracker = tracker
    /\ last_op = "init"
    /\ fed = <<>>
    /\ since_reset = <<>>
    /\ was_reset = FALSE
    /\ \E a \in ScenarioTokens, b \in ScenarioTokens, c \in ScenarioTokens :
            stream = <<a, b, c, a, b, c, a, b, c>>

FeedNext ==
    /\ Len(fed) < Len(stream)
    /\ tracker' = Process(tracker, stream[Len(fed) + 1])
    /\ prev_tracker' = tracker
    /\ last_op' = "process"
    /\ fed' = Append(fed, stream[Len(fed) + 1])
    /\ since_reset' = Append(since_reset, stream[Len(fed) + 1])
    /\ UNCHANGED <<was_reset, stream, combiner_vars, matcher_vars, main_vars>>

SpecScenario == ScenarioInit /\ [][FeedNext]_vars

\* C2 as stated: the stream [a,b,c,a,b,c,a,b,c] leaves exactly one entry,
\* sorted(a,b,c), with count 3.
C2_CountThree ==
    (fed = stream /\ stream = <<1, 2, 3, 1, 2, 3, 1, 2, 3>>)
    => GetResult(tracker) = (<<1, 2, 3>> :> 3)

\* C2 amended: the stream [a,b,c,a,b,c,a,b,c] leaves exactly one entry,
\* sorted(a,b,c), with count 7 (one per call from the third call on).
C2_CountSeven ==
    fed = stream => GetResult(tracker) = (Sorted(SubSeq(stream, 1, 3)) :> 7)

\* the whole stream 1,2,3,1,2,3,1,2,3 has been processed
C2_Witness == fed = stream /\ stream = <<1, 2, 3, 1, 2, 3, 1, 2, 3>>

\* ------------------------------------------------------------ FanOut spec
\* The trackers main builds (lines 45-47), one per window length, are fed the
\* same stream, each in stream order, their process calls interleaved in
\* any way.  A tracker's counter is its position in the stream.
FanOutInit ==
    /\ CombinerUnused
    /\ MatcherUnused
    /\ tracker = NewTracker(1, 1, 1)
    /\ prev_tracker = tracker
    /\ last_op = "init"
    /\ fed = <<>>
    /\ since_reset = <<>>
    /\ was_reset = FALSE
    /\ stream \in [1..MaxFed -> Tokens]
    /\ \E length_low \in 1..MaxL, min_threshold \in 1..MaxThreshold :
            l_identifying_attack_list =
                NewAttackList(length_low, MaxL + 1, min_threshold)
    /\ cnt = 0
    /\ sequences_file = <<>>
    /\ loaded_cnt = 0
    /\ main_pc = "reading"

DoFanOutStep ==
    /\ \E n \in 1..Len(l_identifying_attack_list) :
        LET before == l_identifying_attack_list[n]
            after == Process(before, stream[before.query_count + 1])
        IN  /\ before.query_count < Len(stream)
            /\ l_identifying_attack_list' =
                [m \in 1..Len(l_identifying_attack_list) |->
                    IF m = n THEN after
                    ELSE OtherAfterProcess(l_identifying_attack_list[m],
                                           before, after)]
    /\ UNCHANGED <<tracker, prev_tracker, last_op, fed, since_reset,
                   was_reset, stream, cnt, sequences_file, loaded_cnt,
                   main_pc, combiner_vars, matcher_vars>>

SpecFanOut == FanOutInit /\ [][DoFanOutStep]_vars

\* C25: whatever the interleaving, every tracker holds the table that
\* processing its part of the stream alone gives; when all have read the
\* whole stream, each holds the table of a tracker fed the stream by itself.
C25_InterleavingKeepsTables ==
    \A n \in 1..Len(l_identifying_attack_list) :
        LET t == l_identifying_attack_list[n]
        IN  GetResult(t) =
                GetResult(FeedAll(NewTracker(t.l, t.prune_threshold,
                                             t.prune_interval),
                                  SubSeq(stream, 1, t.query_count)))

\* two trackers of different window lengths have read the whole stream and
\* hold different tables with entries
C25_Witness ==
    /\ Len(l_identifying_attack_list) >= 2
    /\ \A n \in 1..Len(l_identifying_attack_list) :
        /\ l_identifying_attack_list[n].query_count = Len(stream)
        /\ l_identifying_attack_list[n].query_dict # EmptyDict
    /\ l_identifying_attack_list[1].l # l_identifying_attack_list[2].l

\* ----------------------------------------------------------- Combiner spec
\* The tables a tracker of window length l hands over: at most MaxKeys
\* sorted tuples of l tokens, each with a count in 1..MaxCount
Signatures(l) ==
    {Sorted(w) : w \in [1..l -> Tokens]}

TablesOf(l) ==
    UNION {[keys -> 1..MaxCount] :
            keys \in {ks \in SUBSET Signatures(l) : Cardinality(ks) <= MaxKeys}}

CombinerInit ==
    /\ MainUnused
    /\ TrackerUnused
    /\ MatcherUnused
    /\ rc = NewCombiner
    /\ rc_prev = NewCombiner
    /\ last_load = NoLoad
    /\ loaded_lengths = <<>>
    /\ loaded_tables = <<>>
    /\ repeated = FALSE

DoLoad ==
    /\ Len(loaded_lengths) < MaxLoads
    /\ \E query_length \in 1..MaxLen :
        \E result_dict \in TablesOf(query_length) :
            LET r == Load(rc, result_dict, query_length)
            IN  /\ rc' = r.rc
                /\ last_load' = [table |-> result_dict, length |-> query_length,
                                 raised |-> r.raised, left |-> r.left]
                /\ repeated' = /\ loaded_lengths # <<>>
                               /\ last_load.table = result_dict
                               /\ last_load.length = query_length
                /\ loaded_lengths' = Append(loaded_lengths, query_length)
                /\ loaded_tables' = Append(loaded_tables, result_dict)
    /\ rc_prev' = rc
    /\ UNCHANGED <<tracker_vars, matcher_vars, main_vars>>

SpecCombiner == CombinerInit /\ [][DoLoad]_vars

\* the positions of the stored tables
Stored(c) == 1..Len(c.combined_results)

\* the stored table of length l
TableAt(c, l) ==
    c.combined_results[CHOOSE p \in Stored(c) : c.lengths_processed[p] = l]

\* every load so far had a length greater than the one before it
IncreasingLoads ==
    \A n \in 1..(Len(loaded_lengths) - 1) :
        loaded_lengths[n] < loaded_lengths[n + 1]

\* the loads so far had pairwise distinct lengths
DistinctLoads ==
    \A m, n \in 1..Len(loaded_lengths) :
        m # n => loaded_lengths[m] # loaded_lengths[n]

\* C3: after loads of at least three pairwise distinct lengths in increasing
\* order, the result holds no signature s of a length L1 that equals
\* t[i : i+L1], for an offset i in 0..L2-L1, of a signature t of a length L2
\* loaded after s's table.
C3_NoSubSliceOfLater ==
    (Len(loaded_lengths) >= 3 /\ IncreasingLoads) =>
        \A p, q \in Stored(rc) :
            p < q =>
                \A s \in DOMAIN rc.combined_results[p],
                   t \in DOMAIN rc.combined_results[q] :
                    \A i \in 0..(rc.lengths_processed[q] - rc.lengths_processed[p]) :
                        s # Slice(t, i, rc.lengths_processed[p])

\* C4: when the loads had pairwise distinct lengths, in any order, the last
\* call raised nothing and its table is stored as the one entry of its
\* length.
C4_AnyOrderLoads ==
    (loaded_lengths # <<>> /\ DistinctLoads) =>
        /\ ~last_load.raised
        /\ Cardinality({p \in Stored(rc) :
                rc.lengths_processed[p] = last_load.length}) = 1
        /\ TableAt(rc, last_load.length) = last_load.left

\* C9: a load that repeats the arguments of the load just before it leaves
\* the set of signatures get_result returns as it was after that load.
\* The same holds when the second call is handed the dict object of the
\* first call, which that call may have popped keys from.
C9_RepeatedLoadKeepsResult ==
    /\ repeated => ResultSet(rc) = ResultSet(rc_prev)
    /\ loaded_lengths # <<>> =>
            ResultSet(Load(rc, last_load.left, last_load.length).rc)
                = ResultSet(rc)

\* a repeated load of a table with keys into a combiner that stores
\* another length too
C9_Witness ==
    /\ repeated
    /\ ~last_load.raised
    /\ Len(rc.lengths_processed) >= 2
    /\ last_load.table # EmptyDict

\* the last load had a length that was stored already
SameLengthLoad ==
    /\ ~last_load.raised
    /\ \E p \in Stored(rc_prev) : rc_prev.lengths_processed[p] = last_load.length

C11_CountsAggregated ==
    SameLengthLoad =>
        LET old == TableAt(rc_prev, last_load.length)
            new == TableAt(rc, last_load.length)
        IN  \A k \in DOMAIN old \cap DOMAIN last_load.left :
                new[k] = old[k] + last_load.left[k]

\* every load so far completed and stored a table of a new length
AllStored ==
    /\ DistinctLoads
    /\ Len(rc.lengths_processed) = Len(loaded_lengths)

\* C12 as stated: after successful loads of distinct lengths the stored
\* tables are in the order in which the lengths were loaded.
C12_StoredInLoadOrder ==
    AllStored => rc.lengths_processed = loaded_lengths

\* C12: the stored tables are in increasing order of their length, whatever
\* the order of the loads, and get_result lists the signatures of a shorter
\* length before those of a longer one.
C12_StoredInIncreasingLength ==
    /\ \A p, q \in Stored(rc) :
            p < q => rc.lengths_processed[p] < rc.lengths_processed[q]
    /\ LET list == CombinerGetResult(rc)
       IN  \A i, j \in 1..Len(list) : i < j => Len(list[i]) <= Len(list[j])

\* three lengths loaded successfully in an order that is not increasing,
\* with signatures of two lengths in the result
C12_Witness ==
    /\ AllStored
    /\ Len(loaded_lengths) >= 3
    /\ ~IncreasingLoads
    /\ \E s, t \in ResultSet(rc) : Len(s) # Len(t)

\* the combiner after the loads of tables[n], lengths[n], ... in order, and
\* whether one of them raised (the loads after it are not made)
RECURSIVE LoadAll(_, _, _, _)
LoadAll(c, tables, lengths, n) ==
    IF n > Len(tables) THEN [rc |-> c, raised |-> FALSE]
    ELSE LET r == Load(c, tables[n], lengths[n])
         IN  IF r.raised THEN [rc |-> r.rc, raised |-> TRUE]
             ELSE LoadAll(r.rc, tables, lengths, n + 1)

\* the outcome of the loads made so far, had they been made in order f
Reordered(f) ==
    LoadAll(NewCombiner,
            [n \in 1..Len(loaded_tables) |-> loaded_tables[f[n]]],
            [n \in 1..Len(loaded_lengths) |-> loaded_lengths[f[n]]], 1)

C26_LengthsAndTablesAligned ==
    /\ Len(rc.combined_results) = Len(rc.lengths_processed)
    /\ \A p \in Stored(rc) :
        /\ \A q \in Stored(rc) :
                p < q => rc.lengths_processed[p] < rc.lengths_processed[q]
        /\ \A k \in DOMAIN rc.combined_results[p] :
                Len(k) = rc.lengths_processed[p]
        /\ \E n \in 1..Len(loaded_lengths) :
                loaded_lengths[n] = rc.lengths_processed[p]

\* a load raised, after loads that stored two tables with keys, one of them
\* inserted before a longer one
C26_Witness ==
    /\ last_load.raised
    /\ Len(rc.lengths_processed) >= 2
    /\ \A p \in Stored(rc) : rc.combined_results[p] # EmptyDict
    /\ \E n \in 1..(Len(loaded_lengths) - 1) :
            loaded_lengths[n] > loaded_lengths[n + 1]

\* C27: a load that raises ValueError leaves the stored lengths and the
\* stored tables, keys and counts, as they were, and get_result returns the
\* list it returned before; the table handed over may have lost keys.
C27_RaiseKeepsCombiner ==
    last_load.raised =>
        /\ rc.lengths_processed = rc_prev.lengths_processed
        /\ rc.combined_results = rc_prev.combined_results
        /\ CombinerGetResult(rc) = CombinerGetResult(rc_prev)
        /\ DOMAIN last_load.left \subseteq DOMAIN last_load.table
        /\ \A k \in DOMAIN last_load.left :
                last_load.left[k] = last_load.table[k]

\* a load raised and popped a key from the table it was handed, the
\* combiner holding a table with keys
C27_Witness ==
    /\ last_load.raised
    /\ last_load.left # last_load.table
    /\ ResultSet(rc) # {}

\* C29: a load with a stored length removes no key from the stored table of
\* that length: a key the loaded table no longer has, a signature its
\* tracker pruned since the load before, stays stored and stays in what
\* get_result returns.
C29_SameLengthLoadKeepsKeys ==
    SameLengthLoad =>
        /\ DOMAIN TableAt(rc_prev, last_load.length)
                \subseteq DOMAIN TableAt(rc, last_load.length)
        /\ DOMAIN TableAt(rc_prev, last_load.length) \subseteq ResultSet(rc)

\* a load with a stored length of a table that lacks a stored key and has a
\* new one, a longer table being stored too
C29_Witness ==
    /\ SameLengthLoad
    /\ DOMAIN TableAt(rc_prev, last_load.length) \ DOMAIN last_load.table # {}
    /\ DOMAIN last_load.left \ DOMAIN TableAt(rc_prev, last_load.length) # {}
    /\ \E p \in Stored(rc) : rc.lengths_processed[p] > last_load.length

\* ------------------------------------------------------------ Matcher spec
\* Lines of a leaked dataset: 11 credentials with distinct fields, 10
\* credentials (too few to be kept), and 12 credentials in which usernames
\* repeat and collide under a one-digit prefix
LineEleven == [i \in 1..11 |-> <<i, 20 + i>>]
LineTen == [i \in 1..10 |-> <<i, 40 + i>>]
LineTwelve ==
    [i \in 1..12 |-> <<IF i <= 2 THEN 1 ELSE IF i = 3 THEN 17 ELSE 10 + i,
                       20 + i>>]

DatasetLines == {LineEleven, LineTen, LineTwelve}

\* the files of at most MaxLines lines
Files == UNION {[1..n -> DatasetLines] : n \in 0..MaxLines}

QueryTypes == {"user", "pass", "cred"}

\* candidate signatures: sorted tuples of 2 or 3 tokens
CandidateTokens == {1, 2, 12}

CandidateSignatures ==
    {Sorted(w) : w \in [1..2 -> CandidateTokens] \cup [1..3 -> CandidateTokens]}

CandidateLists ==
    UNION {[1..n -> CandidateSignatures] : n \in 0..MaxCandidates}

MatcherInit ==
    /\ MainUnused
    /\ TrackerUnused
    /\ CombinerUnused
    /\ connector = NewConnector
    /\ identified_queries = <<>>
    /\ min_overlap = 0
    /\ connected_results = <<>>
    /\ match_result_list = <<>>
    /\ matcher_pc = "new"
    /\ leak_file = <<>>
    /\ pre_args = NoArgs

DoPreCompute ==
    /\ matcher_pc = "new"
    /\ \E file \in Files, query_type \in QueryTypes,
          prefix_length \in 1..MaxPrefix :
            connector' = PreCompute(connector, file, query_type, prefix_length)
    /\ matcher_pc' = "loaded"
    /\ UNCHANGED <<identified_queries, min_overlap, connected_results,
                   match_result_list, leak_file, pre_args, tracker_vars,
                   combiner_vars, main_vars>>

DoRun ==
    /\ matcher_pc = "loaded"
    /\ \E queries \in CandidateLists, overlap \in 1..MaxOverlap :
        \E best \in BestChoices(queries, connector.hash_credentials_data) :
            /\ identified_queries' = queries
            /\ min_overlap' = overlap
            /\ LET r == Run(connector, queries, overlap, best)
               IN  /\ connected_results' = r.connected_results
                   /\ match_result_list' = r.match_result_list
                   /\ matcher_pc' = IF r.raised THEN "raised" ELSE "ran"
    /\ UNCHANGED <<connector, leak_file, pre_args, tracker_vars,
                   combiner_vars, main_vars>>

MatcherNext == DoPreCompute \/ DoRun

SpecMatcher == MatcherInit /\ [][MatcherNext]_vars

\* how often x occurs in a list
Count(list, x) == Cardinality({i \in 1..Len(list) : list[i] = x})

\* C5: in every record the unmatched list is, as a multiset, the tokens of
\* the candidate signature that produced the record minus the tokens
\* resolved in the matched group.
C5_UnmatchedOfOwnCandidate ==
    matcher_pc = "ran" =>
        \A n \in 1..Len(connected_results) :
            LET record == connected_results[n]
                own == identified_queries[record.candidate]
            IN  \A x \in Items(own) \cup Items(record.unmatched) :
                    Count(record.unmatched, x) =
                        IF Count(own, x) > Count(record.matched_hash, x)
                        THEN Count(own, x) - Count(record.matched_hash, x)
                        ELSE 0

\* the plaintexts of the group of a result that are aligned with the
\* positions whose token occurs in the result's candidate, sorted
AlignedSorted(result) ==
    LET hashes == connector.hash_credentials_data[result.indices[1]]
        plains == connector.credentials_data[result.indices[1]]
        sig == identified_queries[result.candidate]
        at == SelectSeq([i \in 1..Len(hashes) |-> i],
                        LAMBDA i : hashes[i] \in Items(sig))
    IN  Sorted([n \in 1..Len(at) |-> plains[at[n]]])

\* the result at idpos resolves to a matched set that no result before it
\* resolved to
NewMatchedSet(idpos) ==
    \A j \in 1..(idpos - 1) :
        AlignedSorted(match_result_list[j])
            # AlignedSorted(match_result_list[idpos])

\* C13: every accepted candidate whose matched set is new has exactly one
\* record; its matched list holds the plaintexts aligned with the positions
\* of the group whose token occurs in the candidate, and its other list
\* holds the plaintexts of the group minus the matched ones, as multisets.
\* With one group of 11 distinct tokens, the one candidate (A,B,C) of three
\* of them and min_overlap = 2, run returns one record: matched the
\* plaintexts of A, B, C, unmatched empty, other the 8 plaintexts left.
C13_MatchedAndOther ==
    matcher_pc = "ran" =>
        /\ \A idpos \in 1..Len(match_result_list) :
            NewMatchedSet(idpos) =>
                LET result == match_result_list[idpos]
                    plains == connector.credentials_data[result.indices[1]]
                    aligned == AlignedSorted(result)
                    records == {n \in 1..Len(connected_results) :
                        connected_results[n].candidate = result.candidate}
                IN  /\ Cardinality(records) = 1
                    /\ \A n \in records :
                        /\ Sorted(connected_results[n].matched) = aligned
                        /\ Items(connected_results[n].other)
                                \subseteq Items(plains)
                        /\ \A x \in Items(plains) :
                                Count(connected_results[n].other, x) =
                                    Count(plains, x) - Count(aligned, x)
        /\ (/\ Len(connector.hash_credentials_data) = 1
            /\ Len(identified_queries) = 1
            /\ min_overlap = 2) =>
                LET hashes == connector.hash_credentials_data[1]
                    plains == connector.credentials_data[1]
                    sig == identified_queries[1]
                    abc == {i \in 1..Len(hashes) : hashes[i] \in Items(sig)}
                IN  (/\ Len(hashes) = 11
                     /\ Cardinality(Items(hashes)) = 11
                     /\ Len(sig) = 3
                     /\ Cardinality(abc) = 3) =>
                        /\ Len(connected_results) = 1
                        /\ Len(connected_results[1].matched) = 3
                        /\ Items(connected_results[1].matched)
                                = {plains[i] : i \in abc}
                        /\ connected_results[1].unmatched = <<>>
                        /\ Len(connected_results[1].other) = 8
                        /\ Items(connected_results[1].other)
                                = {plains[i] : i \in 1..11 \ abc}

\* the run of the example, over a group whose plaintexts differ from their
\* tokens
C13_Witness ==
    /\ matcher_pc = "ran"
    /\ Len(connector.hash_credentials_data) = 1
    /\ Len(identified_queries) = 1
    /\ min_overlap = 2
    /\ Len(connector.hash_credentials_data[1]) = 11
    /\ Cardinality(Items(connector.hash_credentials_data[1])) = 11
    /\ Len(identified_queries[1]) = 3
    /\ Cardinality(Items(identified_queries[1])
            \cap Items(connector.hash_credentials_data[1])) = 3
    /\ connector.credentials_data[1] # connector.hash_credentials_data[1]
    /\ Len(connected_results) = 1

\* C14: no two records of a run have the same sorted matched list, and of
\* the accepted candidates that resolve to one matched set the first in
\* candidate order, and no other, has a record.
C14_OneRecordPerMatchedSet ==
    matcher_pc = "ran" =>
        /\ \A m, n \in 1..Len(connected_results) :
                m # n => Sorted(connected_results[m].matched)
                            # Sorted(connected_results[n].matched)
        /\ \A idpos \in 1..Len(match_result_list) :
                LET records == {n \in 1..Len(connected_results) :
                        connected_results[n].candidate
                            = match_result_list[idpos].candidate}
                IN  Cardinality(records) =
                        IF NewMatchedSet(idpos) THEN 1 ELSE 0

\* two different candidate signatures were accepted and resolved to the
\* same matched set, and the run returned one record
C14_Witness ==
    /\ matcher_pc = "ran"
    /\ Len(match_result_list) = 2
    /\ identified_queries[1] # identified_queries[2]
    /\ AlignedSorted(match_result_list[1]) = AlignedSorted(match_result_list[2])
    /\ Len(connected_results) = 1
    /\ connected_results[1].candidate = 1

\* the greatest number of distinct tokens of candidate a that one group of
\* B holds (0 without groups)
MaxTally(a, B) ==
    LET tallies == {Cardinality(Items(a) \cap Items(B[g])) : g \in 1..Len(B)}
    IN  IF tallies = {} THEN 0
        ELSE CHOOSE t \in tallies : \A u \in tallies : u <= t

\* C15: a candidate whose maximum tally over the groups is below min_overlap
\* has no record and is not accepted; a candidate whose maximum tally is
\* min_overlap or more is accepted.
C15_AcceptedFromMinOverlap ==
    matcher_pc = "ran" =>
        \A k \in 1..Len(identified_queries) :
            LET tally == MaxTally(identified_queries[k],
                                  connector.hash_credentials_data)
                accepted == \E idpos \in 1..Len(match_result_list) :
                                match_result_list[idpos].candidate = k
            IN  /\ tally < min_overlap =>
                    /\ ~accepted
                    /\ \A n \in 1..Len(connected_results) :
                            connected_results[n].candidate # k
                /\ tally >= min_overlap => accepted

\* a run with a candidate whose best tally is min_overlap - 1, one token or
\* more, and a candidate whose best tally is min_overlap
C15_Witness ==
    /\ matcher_pc = "ran"
    /\ min_overlap >= 2
    /\ \E k \in 1..Len(identified_queries) :
            MaxTally(identified_queries[k], connector.hash_credentials_data)
                = min_overlap - 1
    /\ \E k \in 1..Len(identified_queries) :
            /\ MaxTally(identified_queries[k], connector.hash_credentials_data)
                    = min_overlap
            /\ \E n \in 1..Len(connected_results) :
                    connected_results[n].candidate = k

\* C20: when pre_compute kept no group, run returns an empty list, whatever
\* the candidates and min_overlap, and raises nothing.
C20_EmptyIndexEmptyResult ==
    (matcher_pc \in {"ran", "raised"}
            /\ connector.hash_credentials_data = <<>>) =>
        /\ matcher_pc = "ran"
        /\ connected_results = <<>>

\* run was handed two candidates after a pre_compute that kept no group
C20_Witness ==
    /\ matcher_pc = "ran"
    /\ connector.hash_credentials_data = <<>>
    /\ Len(identified_queries) = 2
    /\ min_overlap = 1

\* the number of distinct tokens that candidate a and group g of B share
Shared(a, B, g) == Cardinality(Items(a) \cap Items(B[g]))

\* C22: the group selected for an accepted candidate has a tally equal to
\* the number of distinct tokens it shares with the candidate, whatever
\* tokens repeat in either, and no group shares more.
C22_SelectedGroupMaximal ==
    matcher_pc = "ran" =>
        \A idpos \in 1..Len(match_result_list) :
            LET result == match_result_list[idpos]
                a == identified_queries[result.candidate]
                B == connector.hash_credentials_data
            IN  /\ result.tally = Shared(a, B, result.indices[1])
                /\ \A g \in 1..Len(B) : Shared(a, B, g) <= result.tally

\* a candidate with a repeated token was accepted for a group, its repeated
\* token occurs more than once in some group, and another group shares
\* fewer tokens with it, though one or more
C22_Witness ==
    /\ matcher_pc = "ran"
    /\ \E idpos \in 1..Len(match_result_list) :
        LET result == match_result_list[idpos]
            a == identified_queries[result.candidate]
            B == connector.hash_credentials_data
        IN  /\ Cardinality(Items(a)) < Len(a)
            /\ \E g \in 1..Len(B), x \in Items(a) :
                    Count(a, x) > 1 /\ Count(B[g], x) > 1
            /\ \E g \in 1..Len(B) :
                    Shared(a, B, g) > 0 /\ Shared(a, B, g) < result.tally

\* --------------------------------------------------------- PreCompute spec
\* pre_compute on a new connector, followed with the file it reads: the
\* lines of the matcher's files and the blank line, which holds no
\* credential
LineBlank == <<>>

LeakFiles ==
    UNION {[1..n -> DatasetLines \cup {LineBlank}] : n \in 0..MaxLines}

PreComputeInit ==
    /\ MainUnused
    /\ TrackerUnused
    /\ CombinerUnused
    /\ connector = NewConnector
    /\ identified_queries = <<>>
    /\ min_overlap = 0
    /\ connected_results = <<>>
    /\ match_result_list = <<>>
    /\ matcher_pc = "new"
    /\ leak_file \in LeakFiles
    /\ pre_args = NoArgs

DoPreComputeFile ==
    /\ matcher_pc = "new"
    /\ \E query_type \in QueryTypes, prefix_length \in 1..MaxPrefix :
        /\ connector' = PreCompute(connector, leak_file, query_type,
                                   prefix_length)
        /\ pre_args' = [query_type |-> query_type,
                        prefix_length |-> prefix_length]
    /\ matcher_pc' = "loaded"
    /\ UNCHANGED <<identified_queries, min_overlap, connected_results,
                   match_result_list, leak_file, tracker_vars, combiner_vars,
                   main_vars>>

SpecPreCompute == PreComputeInit /\ [][DoPreComputeFile]_vars

\* the lines of the file with more than 10 credentials, in file order
LongLines == SelectSeq(leak_file, LAMBDA line : Len(line) > 10)

\* C21: pre_compute keeps one group for every line of more than 10
\* credentials, in file order, and none for a line of 10 or fewer; the two
\* lists of a group have the length of the line, position i holding the
\* selected field of credential i and its digest prefix.
C21_KeepsLongLinesAligned ==
    matcher_pc = "loaded" =>
        /\ Len(connector.credentials_data) = Len(LongLines)
        /\ Len(connector.hash_credentials_data) = Len(LongLines)
        /\ \A g \in 1..Len(LongLines) :
            LET plains == connector.credentials_data[g]
                hashes == connector.hash_credentials_data[g]
            IN  /\ Len(plains) = Len(LongLines[g])
                /\ Len(hashes) = Len(LongLines[g])
                /\ \A i \in 1..Len(LongLines[g]) :
                    /\ plains[i] = Plaintext(LongLines[g][i],
                                             pre_args.query_type)
                    /\ hashes[i] = Digest(plains[i], pre_args.prefix_length)

\* a file with a line of 10 credentials before a line of 11 has been read,
\* and tokens differ from their plaintexts
C21_Witness ==
    /\ matcher_pc = "loaded"
    /\ Len(leak_file) = 2
    /\ Len(leak_file[1]) = 10
    /\ Len(leak_file[2]) = 11
    /\ Len(connector.credentials_data) = 1
    /\ connector.credentials_data[1] # connector.hash_credentials_data[1]

\* --------------------------------------------------------------- Main spec
\* main, step 3: the trackers of the configured lengths read the query file
\* line by line, are loaded into the combiner at every checkpoint, and the
\* combiner's result is written out when the file ends.  fed holds the
\* lines read so far, rc_prev the combiner before the last checkpoint.

MainInit ==
    /\ TrackerUnused
    /\ MatcherUnused
    /\ CombinerUnused
    /\ \E length_low \in 1..MaxL, min_threshold \in 1..MaxThreshold :
            l_identifying_attack_list =
                NewAttackList(length_low, MaxL + 1, min_threshold)
    /\ cnt = 0
    /\ sequences_file = <<>>
    /\ loaded_cnt = 0
    /\ main_pc = "reading"

\* lines 55-63: one line of the file
ReadLine ==
    /\ main_pc = "reading"
    /\ cnt < MaxStream
    /\ cnt' = cnt + 1
    /\ \E query \in Tokens :
        LET attacks == ProcessAll(l_identifying_attack_list, query)
            loaded == LoadAllFrom(rc, attacks, 1)
        IN  /\ fed' = Append(fed, query)
            /\ IF AtCheckpoint(cnt + 1)
               THEN /\ l_identifying_attack_list' = loaded.attacks
                    /\ rc' = loaded.rc
                    /\ rc_prev' = rc
                    /\ main_pc' = IF loaded.raised THEN "aborted" ELSE "reading"
                    /\ loaded_cnt' = IF loaded.raised THEN loaded_cnt ELSE cnt + 1
               ELSE /\ l_identifying_attack_list' = attacks
                    /\ UNCHANGED <<rc, rc_prev, main_pc, loaded_cnt>>
    /\ UNCHANGED <<sequences_file, last_load, loaded_lengths, loaded_tables,
                   repeated, tracker, prev_tracker, last_op, since_reset,
                   was_reset, stream, matcher_vars>>

\* lines 70-72, at the end of the file: rc.get_result() is written out
WriteSequences ==
    /\ main_pc = "reading"
    /\ sequences_file' = CombinerGetResult(rc)
    /\ main_pc' = "written"
    /\ UNCHANGED <<l_identifying_attack_list, cnt, loaded_cnt, combiner_vars,
                   tracker_vars, matcher_vars>>

MainNext == ReadLine \/ WriteSequences

SpecMain == MainInit /\ [][MainNext]_vars

\* C6: the result written out is produced only after every tracker's
\* snapshot taken after the last token of the stream has been loaded, for
\* every stream length.
C6_WrittenAfterFinalLoad ==
    main_pc = "written" => loaded_cnt = cnt

\* C18: get_result returns the table, and neither the call nor what the
\* combiner pops from the mapping it is handed changes a tracker: table,
\* window and counter of every tracker are those that processing the lines
\* read so far leaves.
C18_ResultIsCopy ==
    \A n \in 1..Len(l_identifying_attack_list) :
        LET t == l_identifying_attack_list[n]
        IN  /\ GetResult(t) = t.query_dict
            /\ t = FeedAll(NewTracker(t.l, t.prune_threshold,
                                      t.prune_interval), fed)

\* a checkpoint at which the load popped a key from the mapping that the
\* first tracker's get_result returned
C18_Witness ==
    /\ cnt > 0
    /\ loaded_cnt = cnt
    /\ LET t == l_identifying_attack_list[1]
           r == Load(rc_prev, GetResult(t), t.l)
       IN  /\ ~r.raised
           /\ r.left # GetResult(t)

\* C28: in main, where every checkpoint loads the trackers in increasing
\* order of their length and later checkpoints load the same lengths again,
\* no load raises ValueError.
C28_PipelineLoadsNeverRaise ==
    main_pc # "aborted"

\* the second checkpoint of a run with two trackers has loaded both again
C28_Witness ==
    /\ Len(l_identifying_attack_list) >= 2
    /\ loaded_cnt = 2 * CheckpointInterval
    /\ Len(rc.lengths_processed) = Len(l_identifying_attack_list)
    /\ ResultSet(rc) # {}

====
